---- MODULE Spec2Model ----
(***************************************************************************)
(* Model of pyroll.core.grooves.slitting.SlittingGroove.                   *)
(*                                                                         *)
(* A point is a pair <<z, y>>.  numpy arrays live in a heap of named       *)
(* buffers; an array object is a reference [buf, off] onto a buffer, so    *)
(* that a basic slice is a view sharing its base's storage while a boolean *)
(* mask index, .copy() and np.concatenate allocate fresh storage.          *)
(***************************************************************************)
EXTENDS Integers, Sequences, FiniteSets, TLC

\* ------------------------------------------------------------------ bounds
MaxZ == 2
MaxY == 1
MaxIndent == 1
MaxWidth == 2
MaxDepth == 1
MaxQ == 2
MaxHalves == 1
MaxBatch == 2
MaxWriteIndex == 1

None == "None"

\* ------------------------------------------------------- sequence helpers
FlipNot(s) == s
Flip(s) == [i \in 1..Len(s) |-> s[Len(s) + 1 - i]]

AliasRef(r, new) == r
CopyRef(r, new) == [buf |-> new, off |-> 0]

View(h, r) == SubSeq(h[r.buf], r.off + 1, Len(h[r.buf]))

Store(h, r, s) == [h EXCEPT ![r.buf] = SubSeq(@, 1, r.off) \o s]

CopyInto(h, r, new) == [h EXCEPT ![new] = View(h, r)]

MaskInto(h, kept, new) == [h EXCEPT ![new] = kept]

AddInPlace(h, r, col, d) ==
    Store(h, r, [i \in 1..Len(View(h, r)) |->
                   [View(h, r)[i] EXCEPT ![col] = @ + d]])

MulInPlace(h, r, col, f) ==
    Store(h, r, [i \in 1..Len(View(h, r)) |->
                   [View(h, r)[i] EXCEPT ![col] = @ * f]])

SliceKeep(r) == r
SliceFrom1(r) == [r EXCEPT !.off = @ + 1]

DropNone(s) == s
DropLast(s) == SubSeq(s, 1, Len(s) - 1)

ConcatInto(h, a, b, new) == [h EXCEPT ![new] = a \o b]

\* --------------------------------------------------- the profile provider
Points == (1..MaxZ) \X (0..MaxY)

Increasing(s) == \A i \in 1..(Len(s) - 1) : s[i][1] < s[i + 1][1]

RightHalves ==
    {s \in UNION {[1..n -> Points] : n \in 1..MaxZ} : Increasing(s)}

Centres == {<< >>} \cup {<< <<0, y>> >> : y \in 0..MaxY}

LeftOf(h) ==
    [i \in 1..Len(h) |-> <<-(h[Len(h) + 1 - i][1]), h[Len(h) + 1 - i][2]>>]

\* A groove of positive depth has at least three vertices.
ProviderContours ==
    {s \in {LeftOf(h) \o c \o h : h \in RightHalves, c \in Centres} :
        Len(s) >= 3}

\* ----------------------------------------------------------------- state
\* separator_indent is the constructor's argument; __init__ does not keep it
\* on the instance.  given records the providers' contours as handed in.
VARIABLES phase, heap, separator_indent, outer_groove, inner_groove,
          z_pass, contour_points, contour_line, cross_section, classifiers,
          given, ret

vars == <<phase, heap, separator_indent, outer_groove, inner_groove,
          z_pass, contour_points, contour_line, cross_section, classifiers,
          given, ret>>

Buffers == {"outer_cp", "inner_cp", "outer_mask", "outer_right_side",
            "inner_mask", "inner_right_side", "right_side", "left_side",
            "contour_points"}

Temporaries == {"outer_mask", "outer_right_side", "inner_mask",
                "inner_right_side", "right_side", "left_side"}

OuterRef == [buf |-> "outer_cp", off |-> 0]
InnerRef == [buf |-> "inner_cp", off |-> 0]

\* ---------------------------------------------------------- construction
ZPassNoNeg(h) == View(h, InnerRef)[1][1]
ZPass(h) == -(View(h, InnerRef)[1][1])

NonNegZ(p) == p[1] >= 0
NonPosZ(p) == p[1] <= 0

OuterRightSide(h, zp) ==
    LET h1 == MaskInto(h, SelectSeq(View(h, OuterRef), NonNegZ), "outer_mask")
        m  == [buf |-> "outer_mask", off |-> 0]
        h2 == CopyInto(h1, m, "outer_right_side")
        r  == CopyRef(m, "outer_right_side")
    IN  [heap |-> AddInPlace(h2, r, 1, zp), ref |-> r]

InnerRightSide(h, zp, indent) ==
    LET h1 == MaskInto(h, SelectSeq(View(h, InnerRef), NonPosZ), "inner_mask")
        m  == [buf |-> "inner_mask", off |-> 0]
        h2 == CopyInto(h1, m, "inner_right_side")
        r  == CopyRef(m, "inner_right_side")
        h3 == AddInPlace(h2, r, 1, zp)
    IN  [heap |-> AddInPlace(h3, r, 2, indent), ref |-> r]

RightSide(h, inner, outer) ==
    [heap |-> ConcatInto(h, DropLast(View(h, inner)), View(h, outer),
                         "right_side"),
     ref  |-> [buf |-> "right_side", off |-> 0]]

LeftSide(h, right) ==
    LET s  == SliceFrom1(right)
        h1 == CopyInto(h, s, "left_side")
        r  == CopyRef(s, "left_side")
    IN  [heap |-> MulInPlace(h1, r, 1, -1), ref |-> r]

Contour(h, left, right) ==
    [heap |-> ConcatInto(h, Flip(View(h, left)), View(h, right),
                         "contour_points"),
     ref  |-> [buf |-> "contour_points", off |-> 0]]

Synthesize(h, indent) ==
    LET zp == ZPass(h)
        o  == OuterRightSide(h, zp)
        i  == InnerRightSide(o.heap, zp, indent)
        r  == RightSide(i.heap, i.ref, o.ref)
        l  == LeftSide(r.heap, r.ref)
    IN  Contour(l.heap, l.ref, r.ref)

Collect(h) == [b \in Buffers |-> IF b \in Temporaries THEN << >> ELSE h[b]]

LineString(coords) == coords

Polygon(coords) ==
    IF coords[1] = coords[Len(coords)] THEN coords
    ELSE coords \o <<coords[1]>>

\* ------------------------------------------------ attributes of an instance
InstanceAttrs == {"_outer_groove", "_inner_groove", "z_pass",
                  "_contour_points", "_contour_line", "_cross_section",
                  "_classifiers"}

ClassAttrs == {"contour_points", "contour_line", "cross_section",
               "local_depth", "classifiers", "usable_width", "width",
               "depth", "__attrs__"}

\* What the groove base class declares: the read surface of every groove.
BaseAttrs == {"contour_line", "cross_section", "local_depth", "classifiers",
              "usable_width", "depth"}

HasAttr(n) == n \in InstanceAttrs \cup ClassAttrs \cup BaseAttrs

AttrNames == <<"depth", "separator_indent", "usable_width", "classifiers",
               "pad_angle", "contour_line">>

\* ------------------------------------------------------------ local_depth
\* A query element is [v, t]: its value and its Python/numpy number type.
\* Depth values are counted in halves, so that an odd count is fractional.
Elements == [v : (-MaxQ)..MaxQ, t : {"int", "float"}]

Batches == UNION {[1..n -> Elements] : n \in 0..MaxBatch}

DepthTables == [0..MaxQ -> 0..MaxHalves]

Abs(v) == IF v < 0 THEN -v ELSE v

DType(b) == IF \A i \in 1..Len(b) : b[i].t = "int" /\ Len(b) > 0
            THEN "int" ELSE "float"

AsArray(input) ==
    IF input.shape = "scalar"
    THEN [shape |-> "scalar", dtype |-> input.arg.t,
          vals |-> <<Abs(input.arg.v)>>]
    ELSE [shape |-> "batch", dtype |-> DType(input.arg),
          vals |-> [i \in 1..Len(input.arg) |-> Abs(input.arg[i].v)]]

Cast(d, dtype) == IF dtype = "int" THEN d - (d % 2) ELSE d

InnerCond(a, zp) == Abs(a) < zp
OuterCond(a, zp) == Abs(a) >= zp

\* What a provider's local_depth answers for one value of an array of the
\* given dtype: its depth there, in the argument's dtype when the provider
\* answers in kind, as a float otherwise.
ProviderDepth(g, a, dtype) ==
    IF g.in_kind THEN Cast(g.depths[a], dtype) ELSE g.depths[a]

Apply(y, x, sel, g, dtype) ==
    IF \A i \in 1..Len(x) : ~sel[i] THEN y
    ELSE [i \in 1..Len(y) |->
            IF sel[i] THEN Cast(ProviderDepth(g, x[i], dtype), dtype)
            ELSE y[i]]

Called(x, sel, who) ==
    IF \A i \in 1..Len(x) : ~sel[i] THEN << >>
    ELSE << [provider |-> who,
             args |-> SelectSeq([i \in 1..Len(x) |-> <<x[i], sel[i]>>],
                                LAMBDA p : p[2])] >>

Piecewise(a, zp, inner, outer) ==
    LET x  == a.vals
        c1 == [i \in 1..Len(x) |-> InnerCond(x[i], zp)]
        c2 == [i \in 1..Len(x) |-> OuterCond(x[i], zp)]
        y0 == [i \in 1..Len(x) |-> 0]
        y1 == Apply(y0, x, c1, inner, a.dtype)
        y2 == Apply(y1, x, c2, outer, a.dtype)
    IN  [shape |-> a.shape, dtype |-> a.dtype, vals |-> y2,
         calls |-> Called(x, c1, "inner") \o Called(x, c2, "outer")]

local_depth(input, zp, inner, outer) ==
    Piecewise(AsArray(input), zp, inner, outer)

\* ------------------------------------------------------------------ Init
NoRet == [op |-> None, arg |-> None, val |-> None, err |-> None]

Flat(c) == \A i \in 1..Len(c) : c[i][2] = 0

ZeroTable == [a \in 0..MaxQ |-> 0]

PlainOuter == [usable_width |-> 1, z1 |-> 1, depth |-> 1,
               classifiers |-> {"generic_elongation"}, depths |-> ZeroTable,
               in_kind |-> FALSE]

PlainInner == [depths |-> ZeroTable, in_kind |-> FALSE]

InitWith(inner, outer, indent, og, ig) ==
    /\ phase = "new"
    /\ heap = [b \in Buffers |->
                 IF b = "outer_cp" THEN outer
                 ELSE IF b = "inner_cp" THEN inner ELSE << >>]
    /\ given = [outer |-> outer, inner |-> inner]
    /\ separator_indent = indent
    /\ outer_groove = og
    /\ inner_groove = ig
    /\ z_pass = None
    /\ contour_points = None
    /\ contour_line = None
    /\ cross_section = None
    /\ classifiers = None
    /\ ret = NoRet

PlainContours == {c \in ProviderContours : Flat(c)}

InitContour ==
    \E inner \in ProviderContours, outer \in ProviderContours,
       indent \in 0..MaxIndent :
        /\ inner \in PlainContours \/ outer \in PlainContours
        /\ InitWith(inner, outer, indent, PlainOuter, PlainInner)

InitMeasure ==
    \E inner \in PlainContours,
       w \in 0..MaxWidth, z \in 0..MaxZ, d \in 0..MaxDepth,
       cl \in SUBSET {"generic_elongation", "round"} :
        InitWith(inner, <<<<-1, 0>>, <<0, 0>>, <<1, 0>>>>, 0,
                 [PlainOuter EXCEPT !.usable_width = w, !.z1 = z,
                                    !.depth = d, !.classifiers = cl],
                 PlainInner)

InitDepth ==
    \E inner \in {c \in PlainContours : Len(c) = 3},
       ti \in DepthTables, to \in DepthTables, k \in BOOLEAN :
        InitWith(inner, <<<<-1, 0>>, <<0, 0>>, <<1, 0>>>>, 0,
                 [PlainOuter EXCEPT !.depths = to, !.in_kind = k],
                 [depths |-> ti, in_kind |-> k])

Init == InitContour \/ InitMeasure

\* --------------------------------------------------------------- actions
Construct ==
    /\ phase = "new"
    /\ LET c == Synthesize(heap, separator_indent)
       IN  /\ phase' = "built"
           /\ heap' = Collect(c.heap)
           /\ z_pass' = ZPass(heap)
           /\ contour_points' = c.ref
           /\ contour_line' = LineString(View(c.heap, c.ref))
           /\ cross_section' = Polygon(LineString(View(c.heap, c.ref)))
           /\ classifiers' = outer_groove.classifiers
    /\ UNCHANGED <<separator_indent, outer_groove, inner_groove, given, ret>>

Frame == UNCHANGED <<phase, heap, separator_indent, outer_groove,
                     inner_groove, z_pass, contour_points, contour_line,
                     cross_section, classifiers, given>>

Return(op, arg, val) ==
    ret' = [op |-> op, arg |-> arg, val |-> val, err |-> None]

GetContourPoints ==
    /\ phase = "built"
    /\ Return("contour_points", None, contour_points)
    /\ Frame

GetContourLine ==
    /\ phase = "built"
    /\ Return("contour_line", None, contour_line)
    /\ Frame

GetCrossSection ==
    /\ phase = "built"
    /\ Return("cross_section", None, cross_section)
    /\ Frame

LocalDepthScalar ==
    /\ phase = "built"
    /\ \E e \in Elements :
        LET input == [shape |-> "scalar", arg |-> e]
        IN  Return("local_depth", input,
                   local_depth(input, z_pass, inner_groove, outer_groove))
    /\ Frame

LocalDepthBatch ==
    /\ phase = "built"
    /\ \E b \in Batches :
        LET input == [shape |-> "batch", arg |-> b]
        IN  Return("local_depth", input,
                   local_depth(input, z_pass, inner_groove, outer_groove))
    /\ Frame

Classifiers == {"slitting"} \cup classifiers
UsableWidth == outer_groove.usable_width + z_pass * 2
Width == (outer_groove.z1 + z_pass) * 2
Depth == outer_groove.depth

GetClassifiers ==
    /\ phase = "built"
    /\ Return("classifiers", None, Classifiers)
    /\ Frame

GetUsableWidth ==
    /\ phase = "built"
    /\ Return("usable_width", None, UsableWidth)
    /\ Frame

GetWidth ==
    /\ phase = "built"
    /\ Return("width", None, Width)
    /\ Frame

GetDepth ==
    /\ phase = "built"
    /\ Return("depth", None, Depth)
    /\ Frame

Truthy(n) ==
    CASE n = "depth" -> Depth # 0
      [] n = "usable_width" -> UsableWidth # 0
      [] n = "classifiers" -> Classifiers # {}
      [] n = "contour_line" -> Len(contour_line) > 0
      [] OTHER -> FALSE

AttrValue(n) ==
    CASE n = "depth" -> Depth
      [] n = "usable_width" -> UsableWidth
      [] n = "classifiers" -> Classifiers
      [] n = "contour_line" -> contour_line
      [] OTHER -> None

Attrs ==
    IF \E i \in 1..Len(AttrNames) : ~HasAttr(AttrNames[i])
    THEN [val |-> None, err |-> "AttributeError"]
    ELSE [val |-> [n \in {m \in {AttrNames[i] : i \in 1..Len(AttrNames)} :
                            Truthy(m)} |-> AttrValue(n)],
          err |-> None]

GetAttrs ==
    /\ phase = "built"
    /\ ret' = [op |-> "__attrs__", arg |-> None, val |-> Attrs.val,
               err |-> Attrs.err]
    /\ Frame

\* The caller writes through the array that the contour_points accessor
\* handed out: the accessor returns the cached array itself, not a copy.
CallerWrites ==
    /\ phase = "built"
    /\ ret.op = "contour_points"
    /\ View(heap, ret.val) = contour_line
    /\ \E i \in 1..MaxWriteIndex :
        /\ i <= Len(View(heap, ret.val))
        /\ heap' = Store(heap, ret.val,
                         [View(heap, ret.val) EXCEPT ![i][1] = @ + 1])
    /\ UNCHANGED <<phase, separator_indent, outer_groove, inner_groove,
                   z_pass, contour_points, contour_line, cross_section,
                   classifiers, given, ret>>

Next ==
    \/ Construct
    \/ GetContourPoints
    \/ GetContourLine
    \/ GetCrossSection
    \/ GetClassifiers
    \/ GetUsableWidth
    \/ GetWidth
    \/ GetDepth
    \/ GetAttrs
    \/ CallerWrites

Spec == Init /\ [][Next]_vars

NextDepth ==
    \/ Construct
    \/ LocalDepthScalar
    \/ LocalDepthBatch

SpecDepth == InitDepth /\ [][NextDepth]_vars

\* ------------------------------------------------- what the claims speak of
\* The composite contour as cached on a built instance.
Cp == View(heap, contour_points)

Mid == (Len(Cp) + 1) \div 2

RightHalf == SubSeq(Cp, Mid, Len(Cp))

\* The providers' sides as handed in, translated as the synthesis prescribes.
GivenZPass == -(given.inner[1][1])

GivenInner ==
    LET side == SelectSeq(given.inner, LAMBDA p : p[1] <= 0)
    IN  [i \in 1..Len(side) |->
            <<side[i][1] + GivenZPass, side[i][2] + separator_indent>>]

GivenOuter ==
    LET side == SelectSeq(given.outer, LAMBDA p : p[1] >= 0)
    IN  [i \in 1..Len(side) |-> <<side[i][1] + GivenZPass, side[i][2]>>]

Occurrences(s, p) == Cardinality({i \in 1..Len(s) : s[i] = p})

NoRepeat(s) == \A i \in 1..(Len(s) - 1) : s[i] # s[i + 1]

\* C1: the contour built at construction is symmetric about z = 0: the point
\* at the mirrored index n-1-i is (-z_i, y_i), and the apex at the centre
\* index has z = 0 and occurs once.
Symmetric ==
    /\ Len(Cp) % 2 = 1
    /\ \A i \in 1..Len(Cp) :
          Cp[Len(Cp) + 1 - i] = <<-(Cp[i][1]), Cp[i][2]>>
    /\ Cp[Mid][1] = 0
    /\ Occurrences(Cp, Cp[Mid]) = 1

C1_Symmetry == [][Construct => Symmetric']_vars

C1_Witness ==
    /\ phase = "built"
    /\ Cp = contour_line
    /\ Len(Cp) >= 7
    /\ \E i \in 1..Len(Cp) : Cp[i][2] # Cp[Mid][2]

\* C2 as stated: the seam point, where the translated inner side ends and the
\* translated outer side begins, appears exactly once, no two consecutive
\* points are equal, and dropping the last inner point loses no vertex of
\* either side.
SeamKept ==
    /\ \A i \in 1..Len(GivenInner) : Occurrences(RightHalf, GivenInner[i]) >= 1
    /\ \A i \in 1..Len(GivenOuter) : Occurrences(RightHalf, GivenOuter[i]) >= 1
    /\ Occurrences(Cp, GivenOuter[1]) = 1
    /\ NoRepeat(Cp)

C2_SeamAlways == [][Construct => SeamKept']_vars

\* C2 amended: when the last translated inner point coincides with the first
\* translated outer point, the right half is the inner side followed by the
\* outer side less its first point, and the seam point appears exactly once.
Aligned == GivenInner[Len(GivenInner)] = GivenOuter[1]

SeamOnce ==
    Aligned =>
        /\ RightHalf = GivenInner \o Tail(GivenOuter)
        /\ SeamKept

C2_SeamWhenAligned == [][Construct => SeamOnce']_vars

C2_Witness ==
    /\ phase = "built"
    /\ Cp = contour_line
    /\ Aligned
    /\ separator_indent > 0
    /\ Len(GivenInner) >= 3
    /\ Len(GivenOuter) >= 2

\* C3: the contour built at construction is ordered left to right: z never
\* decreases, the right half is the inner segment with z in [0, z_pass]
\* followed by the outer segment with z >= z_pass, and z_pass is the negated
\* z of the inner contour's first point.
Ordered ==
    /\ z_pass = GivenZPass
    /\ \A i \in 1..(Len(Cp) - 1) : Cp[i][1] <= Cp[i + 1][1]
    /\ \A i \in 1..(Mid - 1) : Cp[i][1] <= 0
    /\ \A i \in 1..Len(RightHalf) :
          IF i < Len(GivenInner)
          THEN 0 <= RightHalf[i][1] /\ RightHalf[i][1] <= z_pass
          ELSE RightHalf[i][1] >= z_pass

C3_Ordered == [][Construct => Ordered']_vars

C3_Witness ==
    /\ phase = "built"
    /\ Cp = contour_line
    /\ Len(GivenInner) >= 3
    /\ Len(GivenOuter) >= 3
    /\ ~Aligned

\* C10: construction leaves the providers' contour arrays as they were, and
\* the right half of the composite contour is the stitched right side as it
\* was before the left side was mirrored from it.
ProvidersKept ==
    /\ heap'["outer_cp"] = heap["outer_cp"]
    /\ heap'["inner_cp"] = heap["inner_cp"]
    /\ heap'["outer_cp"] = given.outer
    /\ heap'["inner_cp"] = given.inner

RightHalfKept ==
    RightHalf = SubSeq(GivenInner, 1, Len(GivenInner) - 1) \o GivenOuter

C10_NoAliasing == [][Construct => ProvidersKept /\ RightHalfKept']_vars

C10_Witness ==
    /\ phase = "built"
    /\ Cp = contour_line
    /\ heap["outer_cp"] = given.outer
    /\ heap["inner_cp"] = given.inner
    /\ GivenZPass = MaxZ
    /\ separator_indent > 0
    /\ Len(RightHalf) >= 4

\* C7: usable_width = outer usable_width + 2 z_pass, width = 2 (outer z1 +
\* z_pass), depth = outer depth, with z_pass the negated z of the inner
\* contour's first point, which is >= 0 when that point is at or left of
\* centre.
C7_Measures ==
    phase = "built" =>
        /\ z_pass = GivenZPass
        /\ given.inner[1][1] <= 0 => z_pass >= 0
        /\ ret.op = "usable_width" =>
              ret.val = outer_groove.usable_width + 2 * GivenZPass
        /\ ret.op = "width" =>
              ret.val = 2 * (outer_groove.z1 + GivenZPass)
        /\ ret.op = "depth" => ret.val = outer_groove.depth

C7_Witness ==
    /\ phase = "built"
    /\ ret.op = "width"
    /\ GivenZPass = 2
    /\ outer_groove.z1 = 1
    /\ outer_groove.depth = 1
    /\ ret.val = 6

\* C8: after construction no accessor call, and no use a caller makes of a
\* returned value, changes a cached field.
C8_ReadOnly ==
    [][phase = "built" =>
          /\ Cp' = Cp
          /\ z_pass' = z_pass
          /\ contour_line' = contour_line
          /\ cross_section' = cross_section
          /\ classifiers' = classifiers
          /\ outer_groove' = outer_groove
          /\ inner_groove' = inner_groove]_vars

\* C9: reading __attrs__ succeeds and maps exactly the names among depth,
\* separator_indent, usable_width, classifiers, pad_angle and contour_line
\* whose value is truthy to that value.
C9_AttrsSucceed ==
    ret.op = "__attrs__" =>
        /\ ret.err = None
        /\ DOMAIN ret.val \subseteq {AttrNames[i] : i \in 1..Len(AttrNames)}
        /\ "classifiers" \in DOMAIN ret.val
        /\ "contour_line" \in DOMAIN ret.val
        /\ "depth" \in DOMAIN ret.val <=> outer_groove.depth # 0

\* The elements of a query, one for a scalar.
Queried == IF ret.arg.shape = "scalar" THEN <<ret.arg.arg>> ELSE ret.arg.arg

Delegated(e) ==
    IF Abs(e.v) < GivenZPass
    THEN ProviderDepth(inner_groove, Abs(e.v), e.t)
    ELSE ProviderDepth(outer_groove, Abs(e.v), e.t)

Consulted(who) ==
    LET c == SelectSeq(ret.val.calls, LAMBDA k : k.provider = who)
    IN  IF c = << >> THEN 0 ELSE Len(c[1].args)

\* C4: local_depth(z) is the inner provider's depth at |z| when |z| < z_pass
\* and the outer provider's depth at |z| when |z| >= z_pass, each element
\* consulting exactly one provider.
C4_Delegates ==
    ret.op = "local_depth" =>
        /\ Len(ret.val.vals) = Len(Queried)
        /\ ret.arg.shape = "scalar" =>
              ret.val.vals[1] = Delegated(Queried[1])
        /\ Consulted("inner") + Consulted("outer") = Len(Queried)

\* C5: local_depth of a batch has the batch's length and its i-th element is
\* local_depth of the i-th z alone; a scalar gives a scalar.
C5_Elementwise ==
    ret.op = "local_depth" =>
        /\ ret.val.shape = ret.arg.shape
        /\ Len(ret.val.vals) = Len(Queried)
        /\ \A i \in 1..Len(Queried) :
              ret.val.vals[i] =
                  local_depth([shape |-> "scalar", arg |-> Queried[i]],
                              z_pass, inner_groove, outer_groove).vals[1]

====
